---- MODULE Spec2Model ----
(***************************************************************************)
(* Kinetic Monte Carlo engine of mcdw (src/montecarlo.py):                 *)
(* MonteCarloSimulation's occupancy/energy state, add_atom, move_atom,     *)
(* prepopulate, update_energy, keep_modification, run_lap and run.         *)
(*                                                                         *)
(* Arithmetic is exact: energies are integers and a Boltzmann weight       *)
(* exp(-E * boltzmann_T) is positive for every finite E, so after          *)
(* `_p[_occ] = 0` a hop candidate has non-zero probability exactly when it *)
(* is unoccupied.  Floating-point overflow/underflow of the weights is not *)
(* modelled.                                                               *)
(***************************************************************************)
EXTENDS Integers, Sequences, FiniteSets, TLC

VARIABLES
    occ,                \* self.occ: site -> BOOLEAN
    energies,           \* self.energies: site -> Int
    energy,             \* self.energy
    previous_occ,       \* self.previous_occ
    previous_energies,  \* self.previous_energies
    previous_energy,    \* self.previous_energy
    add_prepopulated,   \* self.add_prepopulated
    attempted_moves,    \* self.attempted_moves
    successful_moves,   \* self.successful_moves
    not_moved_moves,    \* self.not_moved_moves
    blocked_moves,      \* self.blocked_moves
    move_accepted,      \* self.move_accepted
    total_steps,        \* self.total_steps
    lap,                \* self.lap
    cfg,                \* constructor arguments of the run (max_laps, ...)
    pc,                 \* position of run()/run_lap()
    done,               \* Timing.done of run()'s progress timer
    step,               \* run_lap's loop variable
    moves_left,         \* remaining iterations of run_lap's inner loop
    writes,             \* artifacts written by save_init_state/save_state
    queue,              \* values put on create_image_queue
    last,               \* the last engine call: operation, outcome, operands
    step_log,           \* the engine calls of the current run_lap step
    trial               \* a keep / modify / reverse sequence in progress

vars == <<occ, energies, energy, previous_occ, previous_energies,
          previous_energy, add_prepopulated, attempted_moves,
          successful_moves, not_moved_moves, blocked_moves, move_accepted,
          total_steps, lap, cfg, pc, done, step, moves_left, writes, queue,
          last, step_log, trial>>

stateVars == <<occ, energies, energy>>
snapVars == <<previous_occ, previous_energies, previous_energy>>
moveCounters == <<attempted_moves, successful_moves, not_moved_moves,
                  blocked_moves, move_accepted>>
lapVars == <<total_steps, lap, cfg, pc, done, step, moves_left, writes,
             queue, step_log>>
driverVars == <<lapVars, trial>>

---------------------------------------------------------------------------
(* Bounds of the model *)

MaxMoves == 2       \* move_atom calls explored by the engine specification
MaxLaps == 2        \* largest max_laps explored

\* the values of steps_per_lap and moves_per_step explored
StepsPerLapChoices == {1, 2}
MovesPerStepChoices == {0, 1}

---------------------------------------------------------------------------
(* Lattice provider (surface): site indices and the neighbour table.       *)
(* A periodic ring of N sites; each row has 24 entries in shells of 3, 6,  *)
(* 9 and 6 entries, the relation "is a neighbour of" is symmetric, and on  *)
(* so small a lattice the shells wrap onto few sites: the inner 18 entries *)
(* of site s name its two adjacent sites s+1 and s-1, the encasing ring    *)
(* names the opposite site s+2.                                            *)

N == 4
Sites == 0 .. (N - 1)

Shell1 == 3         \* nni[:3], the hop candidates
Shell2 == 9         \* nni[:9], the exclusion zone of a deposition
Shell3 == 18        \* nni[:18], the inner surroundings
Shell4 == 24        \* nni[18:24], the encasing ring

Offsets == << 1, 3, 1,
              3, 1, 3, 1, 3, 1,
              1, 3, 1, 3, 1, 3, 1, 3, 1,
              2, 2, 2, 2, 2, 2 >>

nni == [s \in Sites |-> [k \in 1 .. Shell4 |-> (s + Offsets[k]) % N]]

\* the sites named by entries a+1 .. b of row s (python nni[a:b])
Slice(s, a, b) == {nni[s][k] : k \in (a + 1) .. b}

\* site-type groups (surface.stidx): the even and the odd sites
stidx == << {s \in Sites : s % 2 = 0}, {s \in Sites : s % 2 = 1} >>

\* site x coordinates (surface.stx), in half lattice units, centred on 0
stx == [s \in Sites |-> 2 * s - (N - 1)]

---------------------------------------------------------------------------
(* Potential model: a fixed value per occupied neighbour-table entry *)

EPS == -1

V(i, nocc) == EPS * Cardinality({k \in DOMAIN nocc : nocc[k]})

get_energy(i, oc) == V(i, [k \in 1 .. Shell4 |-> oc[nni[i][k]]])

RECURSIVE SumTo(_, _)
SumTo(f, n) == IF n < 0 THEN 0 ELSE f[n] + SumTo(f, n - 1)

\* np.sum over the whole vector
Sum(f) == SumTo(f, N - 1)

\* np.count_nonzero(self.occ)
atoms_on_surface(oc) == Cardinality({s \in Sites : oc[s]})

---------------------------------------------------------------------------
(* State & energy bookkeeping *)

\* the mutant: the energy of an unoccupied site is left as it was
update_energies_nozero(en, oc, idx) ==
    [s \in Sites |-> IF s \in idx /\ oc[s] THEN get_energy(s, oc) ELSE en[s]]

\* the energies vector after update_energy(idx) on occupancy oc
update_energies(en, oc, idx) ==
    [s \in Sites |-> IF s \in idx
                     THEN (IF oc[s] THEN get_energy(s, oc) ELSE 0)
                     ELSE en[s]]

\* keep_modification(idx) on a snapshot vector
keep(prev, cur, idx) == [s \in Sites |-> IF s \in idx THEN cur[s] ELSE prev[s]]

EmptyOcc == [s \in Sites |-> FALSE]
ZeroEnergies == [s \in Sites |-> 0]

\* the record of an engine call: the operation, how it ended, the sampled
\* site i, the destination j, and the occupancy the call started from
NoCall == [op |-> "none", out |-> "none", i |-> -1, j |-> -1, pre |-> EmptyOcc]

Call(op, out, i, j) == [op |-> op, out |-> out, i |-> i, j |-> j, pre |-> occ]

\* the calls made so far in a step of run_lap, and the occupied-site count
\* at the moment the range of its move loop was evaluated
NoStep == [calls |-> << >>, atoms |-> 0]

\* a keep_modification(S) whose reverse is pending: S and the occupancy,
\* energies and energy at the time of the keep
NoTrial == [stage |-> "none", S |-> {}, occ |-> EmptyOcc,
            energies |-> ZeroEnergies, energy |-> 0]

---------------------------------------------------------------------------
(* Initial state: MonteCarloSimulation.__init__ *)

\* constructor arguments; target_coverage is the rational tnum / tden
DefaultCfg == [max_laps |-> 1, steps_per_lap |-> 1, moves_per_step |-> 1,
               tnum |-> 1, tden |-> 1, has_queue |-> FALSE]

InitObject ==
    /\ occ = EmptyOcc
    /\ energies = ZeroEnergies
    /\ energy = 0
    /\ previous_occ = EmptyOcc
    /\ previous_energies = ZeroEnergies
    /\ previous_energy = 0
    /\ add_prepopulated = 0
    /\ attempted_moves = 0
    /\ successful_moves = 0
    /\ not_moved_moves = 0
    /\ blocked_moves = 0
    /\ move_accepted = 0
    /\ total_steps = 0
    /\ lap = 0
    /\ pc = "idle"
    /\ done = 0
    /\ step = 0
    /\ moves_left = 0
    /\ writes = << >>
    /\ queue = << >>
    /\ last = NoCall
    /\ step_log = NoStep
    /\ trial = NoTrial

Init == InitObject /\ cfg = DefaultCfg

---------------------------------------------------------------------------
(* update_energy(indices), called directly *)

update_energy(idx) ==
    /\ energies' = update_energies(energies, occ, idx)
    /\ energy' = Sum(energies')
    /\ occ' = occ
    /\ last' = Call("update_energy", "ok", -1, -1)
    /\ UNCHANGED <<snapVars, add_prepopulated, moveCounters>>

---------------------------------------------------------------------------
(* Deposition engine *)

\* the mutant: np.all in place of np.any
zone_free_not_all(i, oc) == ~(\A s \in Slice(i, 0, Shell2) : oc[s])

\* the exclusion-zone test of add_atom: not np.any(occ[nni[:9]])
zone_free(i, oc) == \A s \in Slice(i, 0, Shell2) : ~oc[s]

\* lines 170-172: occupy i, update_energy(nni), update_energy([i,])
add_commit(i, out) ==
    /\ occ' = [occ EXCEPT ![i] = TRUE]
    /\ energies' = update_energies(
                      update_energies(energies, occ', Slice(i, 0, Shell4)),
                      occ', {i})
    /\ energy' = Sum(energies')
    /\ last' = Call("add_atom", out, i, -1)

\* the mutant: the candidates are drawn from all the sites
sti_all(oc) == Sites

\* not_occ_i = self.surface.sti[np.logical_not(self.occ)]
not_occ_i(oc) == {s \in Sites : ~oc[s]}

add_atom ==
    /\ UNCHANGED <<snapVars, add_prepopulated, moveCounters>>
    /\ \/ \* np.random.choice of an empty array raises ValueError
          /\ not_occ_i(occ) = {}
          /\ UNCHANGED stateVars
          /\ last' = Call("add_atom", "ValueError", -1, -1)
       \/ \* a sampled candidate passes the test: break
          \E i \in not_occ_i(occ) :
             /\ zone_free(i, occ)
             /\ add_commit(i, "added")
       \/ \* all nbtry samples fail the test; i is the last one sampled
          \E i \in not_occ_i(occ) :
             /\ ~zone_free(i, occ)
             /\ add_commit(i, "exhausted")

---------------------------------------------------------------------------
(* Diffusion engine *)

\* the mutant: the inner surroundings are required to be occupied
surrounded_inner_occupied(i, oc) ==
    /\ \A s \in Slice(i, Shell3, Shell4) : oc[s]
    /\ \A s \in Slice(i, 0, Shell3) : oc[s]
    /\ oc[i]

\* the "is surrounded" test of move_atom
surrounded(i, oc) ==
    /\ \A s \in Slice(i, Shell3, Shell4) : oc[s]
    /\ ~(\E s \in Slice(i, 0, Shell3) : oc[s])
    /\ oc[i]

\* _nni: the site itself and its first shell
candidates(i) == {i} \cup Slice(i, 0, Shell1)

\* the mutant: the weights of occupied candidates are not zeroed
hop_targets_any(i, oc) == candidates(i)

\* the candidates with non-zero probability after _p[_occ] = 0; oc is the
\* occupancy with i vacated
hop_targets(i, oc) == {c \in candidates(i) : ~oc[c]}

\* the mutant: the source site is left occupied
vacate_skipped(oc, i) == oc

\* self.occ[i] = False
vacate(oc, i) == [oc EXCEPT ![i] = FALSE]

\* the mutant: the hop is not counted as accepted
accepted_not_counted(n) == n

\* self.move_accepted += 1
accepted(n) == n + 1

move_atom ==
    /\ attempted_moves' = attempted_moves + 1
    /\ UNCHANGED add_prepopulated
    /\ \/ \* np.random.choice of an empty array raises ValueError
          /\ \A s \in Sites : ~occ[s]
          /\ UNCHANGED <<stateVars, snapVars, successful_moves,
                         not_moved_moves, blocked_moves, move_accepted>>
          /\ last' = Call("move_atom", "ValueError", -1, -1)
       \/ \E i \in {s \in Sites : occ[s]} :
             /\ surrounded(i, occ)
             /\ blocked_moves' = blocked_moves + 1
             /\ UNCHANGED <<stateVars, snapVars, successful_moves,
                            not_moved_moves, move_accepted>>
             /\ last' = Call("move_atom", "blocked", i, -1)
       \/ \E i \in {s \in Sites : occ[s]} :
             /\ ~surrounded(i, occ)
             /\ hop_targets(i, vacate(occ, i)) # {}
             /\ LET vacated == vacate(occ, i) IN
                \E j \in hop_targets(i, vacated) :
                   /\ IF j # i
                      THEN /\ successful_moves' = successful_moves + 1
                           /\ UNCHANGED not_moved_moves
                      ELSE /\ not_moved_moves' = not_moved_moves + 1
                           /\ UNCHANGED successful_moves
                   /\ occ' = [vacated EXCEPT ![j] = TRUE]
                   /\ energies' = update_energies(
                                     update_energies(energies, occ',
                                                     candidates(i)),
                                     occ', {i, j})
                   /\ energy' = Sum(energies')
                   /\ previous_energies' =
                         keep(previous_energies, energies',
                              candidates(i) \cup {i, j})
                   /\ previous_energy' = energy'
                   /\ previous_occ' =
                         keep(previous_occ, occ', candidates(i) \cup {i, j})
                   /\ move_accepted' = accepted(move_accepted)
                   /\ UNCHANGED blocked_moves
                   /\ last' = Call("move_atom",
                                   IF j # i THEN "moved" ELSE "not_moved",
                                   i, j)
       \/ \E i \in {s \in Sites : occ[s]} :
             \* every weight is zero: _p is 0/0 and np.random.choice raises
             /\ ~surrounded(i, occ)
             /\ hop_targets(i, vacate(occ, i)) = {}
             /\ occ' = vacate(occ, i)
             /\ UNCHANGED <<energies, energy, snapVars, successful_moves,
                            not_moved_moves, blocked_moves, move_accepted>>
             /\ last' = Call("move_atom", "NaN", i, -1)

---------------------------------------------------------------------------
(* Pre-population: prepopulate(fraction) *)

prepopulate(c) ==
    /\ add_prepopulated' = Cardinality(c)
    /\ occ' = [s \in Sites |-> occ[s] \/ s \in c]
    /\ energies' = update_energies(energies, occ', Sites)
    /\ energy' = Sum(energies')
    /\ previous_energies' = energies'
    /\ previous_energy' = energy'
    /\ previous_occ' = occ'
    /\ last' = Call("prepopulate", "ok", -1, -1)
    /\ UNCHANGED moveCounters

\* prepopulate_sites(i): `total` is not defined in the method, so
\* np.arange(total) raises NameError before anything is changed
prepopulate_sites(i) ==
    /\ last' = Call("prepopulate_sites", "NameError", i, -1)
    /\ UNCHANGED <<stateVars, snapVars, add_prepopulated, moveCounters>>

\* the sites prepopulate_split(i, j, gap) selects: group i left of -gap/2
\* and group j right of gap/2
split_sites(i, j, gap) ==
    {s \in stidx[i] : 2 * stx[s] < -gap} \cup {s \in stidx[j] : 2 * stx[s] > gap}

\* prepopulate_split(i, j, gap)
prepopulate_split(i, j, gap) ==
    LET c == split_sites(i, j, gap) IN
    /\ add_prepopulated' = Cardinality(c)
    /\ occ' = [s \in Sites |-> occ[s] \/ s \in c]
    /\ energies' = update_energies(energies, occ', Sites)
    /\ energy' = Sum(energies')
    /\ previous_energies' = energies'
    /\ previous_energy' = energy'
    /\ previous_occ' = occ'
    /\ last' = Call("prepopulate_split", "ok", i, j)
    /\ UNCHANGED moveCounters

---------------------------------------------------------------------------
(* The engine specification: any sequence of calls on one object *)

\* the gaps of prepopulate_split explored, in half lattice units
GapChoices == {0, 4}

PrepopulateSites ==
    \E i \in DOMAIN stidx : prepopulate_sites(i) /\ UNCHANGED driverVars

PrepopulateSplit ==
    \E i \in DOMAIN stidx, j \in DOMAIN stidx, gap \in GapChoices :
       prepopulate_split(i, j, gap) /\ UNCHANGED driverVars

Prepopulate ==
    \E c \in SUBSET Sites :
       prepopulate(c) /\ UNCHANGED driverVars

AddAtom == add_atom /\ UNCHANGED driverVars

MoveAtom ==
    /\ attempted_moves < MaxMoves
    /\ move_atom
    /\ UNCHANGED driverVars

\* index sets of the direct update_energy calls: one site, or all sites
IndexSets == {{s} : s \in Sites} \cup {Sites}

UpdateEnergy ==
    \E idx \in IndexSets :
       update_energy(idx) /\ UNCHANGED driverVars

Next ==
    \/ Prepopulate
    \/ PrepopulateSites
    \/ PrepopulateSplit
    \/ AddAtom
    \/ MoveAtom
    \/ UpdateEnergy

Spec == Init /\ [][Next]_vars

---------------------------------------------------------------------------
(* The snapshot pair: keep_modification and reverse_modification, used by  *)
(* a caller that tries a modification on an index set and takes it back.   *)

\* the mutant: every index is restored from the snapshot
restore_all(cur, prev, idx) == prev

\* reverse_modification(idx) on a current vector
restore(cur, prev, idx) ==
    [s \in Sites |-> IF s \in idx THEN prev[s] ELSE cur[s]]

keep_modification(idx) ==
    /\ previous_energies' = keep(previous_energies, energies, idx)
    /\ previous_energy' = energy
    /\ previous_occ' = keep(previous_occ, occ, idx)
    /\ UNCHANGED <<stateVars, add_prepopulated, moveCounters, last>>

reverse_modification(idx) ==
    /\ energies' = restore(energies, previous_energies, idx)
    /\ energy' = previous_energy
    /\ occ' = restore(occ, previous_occ, idx)
    /\ UNCHANGED <<snapVars, add_prepopulated, moveCounters, last>>

\* the object is brought to some state by engine calls before the trial
SnapPrepopulate == trial.stage = "none" /\ Prepopulate

SnapAddAtom == trial.stage = "none" /\ AddAtom

\* at most one move_atom call before the trial
SnapMoveAtom == trial.stage = "none" /\ attempted_moves = 0 /\ MoveAtom

\* keep_modification(S) on a non-empty index set S
KeepModification ==
    /\ trial.stage = "none"
    /\ \E S \in (SUBSET Sites) \ {{}} :
          /\ keep_modification(S)
          /\ trial' = [stage |-> "kept", S |-> S, occ |-> occ,
                       energies |-> energies, energy |-> energy]
    /\ UNCHANGED lapVars

\* the caller changes the occupancy of one site of S
ChangeOccupancy ==
    /\ trial.stage \in {"kept", "changed"}
    /\ \E s \in trial.S : occ' = [occ EXCEPT ![s] = ~occ[s]]
    /\ trial' = [trial EXCEPT !.stage = "changed"]
    /\ UNCHANGED <<energies, energy, snapVars, add_prepopulated,
                   moveCounters, last, lapVars>>

\* update_energy(S) after the changes
TrialUpdateEnergy ==
    /\ trial.stage \in {"kept", "changed"}
    /\ update_energy(trial.S)
    /\ trial' = [trial EXCEPT !.stage = "updated"]
    /\ UNCHANGED lapVars

\* reverse_modification(S)
ReverseModification ==
    /\ trial.stage = "updated"
    /\ reverse_modification(trial.S)
    /\ trial' = [trial EXCEPT !.stage = "reversed"]
    /\ UNCHANGED lapVars

NextSnap ==
    \/ SnapPrepopulate
    \/ SnapAddAtom
    \/ SnapMoveAtom
    \/ KeepModification
    \/ ChangeOccupancy
    \/ TrialUpdateEnergy
    \/ ReverseModification

SpecSnap == Init /\ [][NextSnap]_vars

---------------------------------------------------------------------------
(* Lap driver: run() and run_lap(), one action per call or loop test.      *)
(* self.temperature only scales the hop weights and is not modelled.       *)

\* the constructor arguments explored; max_coverage is tnum / tden
Targets == {<<0, 1>>, <<1, 3>>, <<1, 2>>, <<1, 1>>, <<3, 2>>}

Configs ==
    {[max_laps |-> ml, steps_per_lap |-> sl, moves_per_step |-> ms,
      tnum |-> t[1], tden |-> t[2], has_queue |-> q] :
        ml \in 0 .. MaxLaps, sl \in StepsPerLapChoices,
        ms \in MovesPerStepChoices, t \in Targets, q \in BOOLEAN}

InitRun == InitObject /\ cfg \in Configs

\* the mutant: <= in place of <
below_target_or_equal(oc) ==
    atoms_on_surface(oc) * cfg.tden <= cfg.tnum * N

\* run_lap's test self.coverage < self.target_coverage
below_target(oc) == atoms_on_surface(oc) * cfg.tden < cfg.tnum * N

\* the mutant: the file is named after the timer's lap count
save_lap_done == done

\* the lap index in save_state's file name "occ_%.10d.npy" % self.lap
save_lap == lap

InitArtifact == [kind |-> "init", lap |-> -1, occ |-> EmptyOcc]

\* save_state: np.save(fn, self.occ)
save_state == writes' = Append(writes, [kind |-> "occ", lap |-> save_lap,
                                        occ |-> occ])

engineVars == <<stateVars, snapVars, add_prepopulated, moveCounters, last>>

\* a one-shot pre-population before run() is called
RunPrepopulate ==
    /\ pc = "idle"
    /\ last.op = "none"
    /\ \E c \in SUBSET Sites : prepopulate(c)
    /\ UNCHANGED driverVars

\* run(): the timer is created and save_init_state() writes init.npz
RunStart ==
    /\ pc = "idle"
    /\ writes' = Append(writes, InitArtifact)
    /\ done' = 0
    /\ pc' = "loop"
    /\ UNCHANGED <<step_log, trial>>
    /\ UNCHANGED <<engineVars, total_steps, lap, cfg, step, moves_left, queue>>

\* while t.done < self.max_laps: self.lap = t.done; run_lap() is entered
LoopEnter ==
    /\ pc = "loop"
    /\ done < cfg.max_laps
    /\ lap' = done
    /\ step' = 0
    /\ pc' = "step"
    /\ UNCHANGED <<step_log, trial>>
    /\ UNCHANGED <<engineVars, total_steps, cfg, done, moves_left, writes,
                   queue>>

\* the while test fails: the loop is left
LoopExit ==
    /\ pc = "loop"
    /\ ~(done < cfg.max_laps)
    /\ pc' = "final"
    /\ UNCHANGED <<step_log, trial>>
    /\ UNCHANGED <<engineVars, total_steps, lap, cfg, done, step, moves_left,
                   writes, queue>>

\* the mutant: the range of the move loop ignores the occupied-site count
nb_moves_per_step_only(oc) == cfg.moves_per_step

\* range(self.moves_per_step*self.atoms_on_surface), integer moves_per_step
nb_moves(oc) == cfg.moves_per_step * atoms_on_surface(oc)

\* a step whose coverage is below the target: add_atom(), then the range
\* of the move loop is evaluated
StepDeposit ==
    /\ pc = "step"
    /\ step < cfg.steps_per_lap
    /\ below_target(occ)
    /\ add_atom
    /\ moves_left' = nb_moves(occ')
    /\ step_log' = [calls |-> << "add_atom" >>,
                    atoms |-> atoms_on_surface(occ')]
    /\ pc' = IF last'.out = "ValueError" THEN "crashed" ELSE "moves"
    /\ UNCHANGED trial
    /\ UNCHANGED <<total_steps, lap, cfg, done, step, writes, queue>>

\* a step whose coverage has reached the target: no deposition
StepNoDeposit ==
    /\ pc = "step"
    /\ step < cfg.steps_per_lap
    /\ ~below_target(occ)
    /\ moves_left' = nb_moves(occ)
    /\ step_log' = [calls |-> << >>, atoms |-> atoms_on_surface(occ)]
    /\ pc' = "moves"
    /\ UNCHANGED trial
    /\ UNCHANGED <<engineVars, total_steps, lap, cfg, done, step, writes,
                   queue>>

\* one iteration of the move loop
StepMove ==
    /\ pc = "moves"
    /\ moves_left > 0
    /\ move_atom
    /\ moves_left' = moves_left - 1
    /\ step_log' = [step_log EXCEPT !.calls = Append(@, "move_atom")]
    /\ pc' = IF last'.out \in {"ValueError", "NaN"} THEN "crashed"
             ELSE "moves"
    /\ UNCHANGED trial
    /\ UNCHANGED <<total_steps, lap, cfg, done, step, writes, queue>>

\* the move loop is over: self.total_steps += 1
StepEnd ==
    /\ pc = "moves"
    /\ moves_left = 0
    /\ total_steps' = total_steps + 1
    /\ step' = step + 1
    /\ pc' = "step"
    /\ UNCHANGED <<step_log, trial>>
    /\ UNCHANGED <<engineVars, lap, cfg, done, moves_left, writes, queue>>

\* run_lap() returns and save_state() writes the lap's occupancy
LapSave ==
    /\ pc = "step"
    /\ ~(step < cfg.steps_per_lap)
    /\ save_state
    /\ pc' = "post"
    /\ UNCHANGED <<step_log, trial>>
    /\ UNCHANGED <<engineVars, total_steps, lap, cfg, done, step, moves_left,
                   queue>>

\* the mutant: the timer's count after the tic is posted
posted_lap_after_tic == done + 1

\* the value of create_image_queue.put(self.lap)
posted_lap == lap

\* create_image_queue.put(self.lap) when a queue was given; t.tic()
LapPost ==
    /\ pc = "post"
    /\ queue' = IF cfg.has_queue
                THEN Append(queue, [kind |-> "lap", lap |-> posted_lap])
                ELSE queue
    /\ done' = done + 1
    /\ pc' = "loop"
    /\ UNCHANGED <<step_log, trial>>
    /\ UNCHANGED <<engineVars, total_steps, lap, cfg, step, moves_left,
                   writes>>

\* the save_state() after the loop
FinalSave ==
    /\ pc = "final"
    /\ save_state
    /\ pc' = "quit"
    /\ UNCHANGED <<step_log, trial>>
    /\ UNCHANGED <<engineVars, total_steps, lap, cfg, done, step, moves_left,
                   queue>>

\* t.finished(); create_image_queue.put('QUIT') when a queue was given
Quit ==
    /\ pc = "quit"
    /\ queue' = IF cfg.has_queue
                THEN Append(queue, [kind |-> "QUIT", lap |-> -1])
                ELSE queue
    /\ pc' = "finished"
    /\ UNCHANGED <<step_log, trial>>
    /\ UNCHANGED <<engineVars, total_steps, lap, cfg, done, step, moves_left,
                   writes>>

NextRun ==
    \/ RunPrepopulate
    \/ RunStart
    \/ LoopEnter
    \/ LoopExit
    \/ StepDeposit
    \/ StepNoDeposit
    \/ StepMove
    \/ StepEnd
    \/ LapSave
    \/ LapPost
    \/ FinalSave
    \/ Quit

SpecRun == InitRun /\ [][NextRun]_vars

---------------------------------------------------------------------------
(* Claims on the engine specification *)

FullRing(i, oc) == \A s \in Slice(i, Shell3, Shell4) : oc[s]
FullInner(i, oc) == \A s \in Slice(i, 0, Shell3) : oc[s]

\* C1: in every state reached by prepopulate, add_atom, move_atom and
\* update_energy calls, energy is the sum of the energies vector and the
\* stored energy of every unoccupied site is 0.
C1_EnergyIsSumAndZeroWhenEmpty ==
    /\ energy = Sum(energies)
    /\ \A s \in Sites : ~occ[s] => energies[s] = 0

\* a hop has happened and left occupied sites with non-zero energy
C1_Witness ==
    /\ last.op = "move_atom"
    /\ last.out = "moved"
    /\ energy # 0
    /\ \E s \in Sites : ~occ[s]

\* C2: after every add_atom and every move_atom call, the stored energy of
\* every occupied site is the potential evaluated on the current occupancy
\* of its neighbours.
C2_StoredEnergyIsPotential ==
    last.op \in {"add_atom", "move_atom"} =>
        \A k \in Sites : occ[k] => energies[k] = get_energy(k, occ)

\* C3: a move_atom call keeps the number of occupied sites; it leaves the
\* occupancy as it was, or moves the sampled occupied site i to a distinct
\* site j of the first 3 neighbour entries of i that was unoccupied; the
\* destination chosen is never a site occupied by another particle.
C3_MoveAtomHop ==
    last.op = "move_atom" =>
        /\ atoms_on_surface(occ) = atoms_on_surface(last.pre)
        /\ \/ occ = last.pre
           \/ /\ last.i \in Sites /\ last.j \in Sites
              /\ last.i # last.j
              /\ last.pre[last.i]
              /\ ~last.pre[last.j]
              /\ last.j \in Slice(last.i, 0, Shell1)
              /\ occ = [last.pre EXCEPT ![last.i] = FALSE, ![last.j] = TRUE]
        /\ last.j \in Sites => (last.j = last.i \/ ~last.pre[last.j])

\* a particle has hopped to a neighbour while another neighbour was occupied
C3_Witness ==
    /\ last.op = "move_atom"
    /\ last.out = "moved"
    /\ \E s \in Slice(last.i, 0, Shell1) : last.pre[s]

\* C4: after an add_atom call that found a valid candidate, occ has exactly
\* one more true entry, the new site was unoccupied before, and none of the
\* first 9 neighbour entries of the new site was occupied before the call.
C4_SuccessfulDeposition ==
    (last.op = "add_atom" /\ last.out = "added") =>
        /\ atoms_on_surface(occ) = atoms_on_surface(last.pre) + 1
        /\ ~last.pre[last.i]
        /\ occ = [last.pre EXCEPT ![last.i] = TRUE]
        /\ \A s \in Slice(last.i, 0, Shell2) : ~last.pre[s]

\* a deposition has succeeded on a lattice that already held a particle
C4_Witness ==
    /\ last.op = "add_atom"
    /\ last.out = "added"
    /\ \E s \in Sites : last.pre[s]

\* C5: when add_atom exhausts its attempts, the call leaves the occupancy
\* as it was before the call.
C5_ExhaustedLeavesStateUnchanged ==
    (last.op = "add_atom" /\ last.out = "exhausted") => occ = last.pre

\* C6: on a fully occupied lattice add_atom ends in the exhausted-attempts
\* outcome and leaves the occupancy unchanged.
C6_FullLatticeReportsExhausted ==
    (last.op = "add_atom" /\ \A s \in Sites : last.pre[s]) =>
        /\ last.out = "exhausted"
        /\ occ = last.pre

\* C7 as claimed: when move_atom samples a site whose encasing ring and
\* inner shell are both fully occupied, it increments blocked_moves and
\* leaves the occupancy unchanged.
C7_FullShellsBlocked ==
    [][(/\ attempted_moves' = attempted_moves + 1
        /\ last'.i \in Sites
        /\ FullRing(last'.i, occ)
        /\ FullInner(last'.i, occ))
       => (blocked_moves' = blocked_moves + 1 /\ occ' = occ)]_vars

\* C7 as amended: such a call is not counted as blocked; it takes the hop
\* path, where the vacated source is the only unoccupied candidate, so
\* not_moved_moves is incremented and the occupancy is unchanged.
C7_FullShellsNotMoved ==
    [][(/\ attempted_moves' = attempted_moves + 1
        /\ last'.i \in Sites
        /\ FullRing(last'.i, occ)
        /\ FullInner(last'.i, occ))
       => (/\ blocked_moves' = blocked_moves
           /\ not_moved_moves' = not_moved_moves + 1
           /\ occ' = occ)]_vars

\* move_atom has sampled a site with fully occupied ring and inner shell
C7_Witness ==
    /\ last.op = "move_atom"
    /\ last.i \in Sites
    /\ last.out = "not_moved"
    /\ FullRing(last.i, last.pre)
    /\ FullInner(last.i, last.pre)

EmptyInner(i, oc) == \A s \in Slice(i, 0, Shell3) : ~oc[s]

\* C14: when move_atom samples a site whose encasing ring is entirely
\* occupied and whose first 18 neighbour entries are entirely unoccupied,
\* the call changes only attempted_moves and blocked_moves (each +1):
\* occupancy, energies, energy, the snapshot buffers, successful_moves,
\* not_moved_moves and move_accepted are unchanged.
C14_BlockedMoveFrame ==
    [][(/\ attempted_moves' = attempted_moves + 1
        /\ last'.i \in Sites
        /\ FullRing(last'.i, occ)
        /\ EmptyInner(last'.i, occ))
       => (/\ blocked_moves' = blocked_moves + 1
           /\ UNCHANGED <<stateVars, snapVars, add_prepopulated,
                          successful_moves, not_moved_moves,
                          move_accepted>>)]_vars

\* move_atom has sampled a buried site: ring full, inner shell empty
C14_Witness ==
    /\ last.op = "move_atom"
    /\ last.i \in Sites
    /\ last.out = "blocked"
    /\ FullRing(last.i, last.pre)
    /\ EmptyInner(last.i, last.pre)
    /\ attempted_moves = blocked_moves + successful_moves + not_moved_moves
    /\ blocked_moves >= 1

---------------------------------------------------------------------------
(* Claims on the lap driver specification *)

OccWrites == SelectSeq(writes, LAMBDA w : w.kind = "occ")
InitWrites == SelectSeq(writes, LAMBDA w : w.kind = "init")

\* C8: across the steps of run_lap the number of occupied sites never
\* decreases, and add_atom is only invoked in a step that starts with
\* coverage below target_coverage.
C8_CoverageMonotoneAndGated ==
    [][/\ atoms_on_surface(occ') >= atoms_on_surface(occ)
       /\ (last' # last /\ last'.op = "add_atom") =>
             atoms_on_surface(occ) * cfg.tden < cfg.tnum * N]_vars

\* a step has started at the target and made its moves without depositing
C8_Witness ==
    /\ pc = "moves"
    /\ atoms_on_surface(occ) * cfg.tden >= cfg.tnum * N
    /\ last.op = "move_atom"
    /\ last.out = "moved"
    /\ cfg.tnum > 0

\* C9 as claimed: from zero initial occupancy, coverage stays within
\* [0, target_coverage] for every target_coverage in [0, 1].
C9_CoverageWithinTarget ==
    (add_prepopulated = 0 /\ cfg.tnum <= cfg.tden) =>
        atoms_on_surface(occ) * cfg.tden <= cfg.tnum * N

\* C9 as amended: from zero initial occupancy, the coverage is 0 or the
\* coverage before the last deposition was below target_coverage, so it
\* exceeds target_coverage by less than one site (1/N).
C9_CoverageBelowTargetPlusOneSite ==
    (add_prepopulated = 0 /\ cfg.tnum <= cfg.tden) =>
        \/ atoms_on_surface(occ) = 0
        \/ (atoms_on_surface(occ) - 1) * cfg.tden < cfg.tnum * N

\* a run from the empty lattice has deposited up to its target and goes on
C9_Witness ==
    /\ add_prepopulated = 0
    /\ cfg.tnum <= cfg.tden
    /\ cfg.tnum > 0
    /\ pc = "moves"
    /\ step > 0
    /\ atoms_on_surface(occ) * cfg.tden >= cfg.tnum * N

\* C10 as claimed: for max_laps >= 1 the init artifact is written once and
\* first, and the finished run has written exactly one occupancy checkpoint
\* per lap index 0 .. max_laps-1, none of them twice.
C10_OneCheckpointPerLap ==
    /\ pc # "idle" => (Len(writes) >= 1 /\ writes[1].kind = "init"
                       /\ Len(InitWrites) = 1)
    /\ (pc = "finished" /\ cfg.max_laps >= 1) =>
          /\ Len(OccWrites) = cfg.max_laps
          /\ \A k \in 1 .. Len(OccWrites) : OccWrites[k].lap = k - 1

\* C10 as amended: the init artifact is written once and before any lap or
\* occupancy checkpoint; lap k's checkpoint is written when lap k's steps
\* are over and holds the occupancy of that moment; the finished run has
\* written the indices 0 .. max_laps-1 in order and then the last index
\* max_laps-1 a second time, with the same occupancy.
C10_CheckpointsAndFinalRewrite ==
    /\ pc = "idle" => writes = << >>
    /\ pc # "idle" => (Len(writes) >= 1 /\ writes[1].kind = "init"
                       /\ Len(InitWrites) = 1)
    /\ pc = "post" =>
          /\ step = cfg.steps_per_lap
          /\ writes[Len(writes)] = [kind |-> "occ", lap |-> lap, occ |-> occ]
          /\ Len(OccWrites) = lap + 1
    /\ pc \in {"step", "moves"} => Len(OccWrites) = lap
    /\ (pc = "finished" /\ cfg.max_laps >= 1) =>
          /\ Len(OccWrites) = cfg.max_laps + 1
          /\ \A k \in 1 .. cfg.max_laps : OccWrites[k].lap = k - 1
          /\ OccWrites[cfg.max_laps + 1] = OccWrites[cfg.max_laps]
          /\ OccWrites[cfg.max_laps].occ = occ

\* a run of two laps has finished with particles on the lattice
C10_Witness ==
    /\ pc = "finished"
    /\ cfg.max_laps >= 2
    /\ atoms_on_surface(occ) >= 1
    /\ OccWrites[1].occ # OccWrites[2].occ

LapPosts == SelectSeq(queue, LAMBDA q : q.kind = "lap")

\* C11: with a queue, run() posts the lap indices 0, 1, ..., max_laps-1 in
\* increasing order, each only after that lap's occupancy checkpoint was
\* written, then exactly one 'QUIT' as the last message, also when max_laps
\* is 0; nothing follows the sentinel.
C11_QueueSequence ==
    /\ ~cfg.has_queue => queue = << >>
    /\ cfg.has_queue =>
          /\ \A k \in 1 .. Len(LapPosts) : LapPosts[k].lap = k - 1
          /\ Len(LapPosts) <= cfg.max_laps
          /\ \A k \in 1 .. Len(LapPosts) :
                /\ Len(OccWrites) >= k
                /\ OccWrites[k].lap = k - 1
          /\ pc # "finished" => queue = LapPosts
          /\ pc = "finished" =>
                /\ Len(LapPosts) = cfg.max_laps
                /\ queue = Append(LapPosts, [kind |-> "QUIT", lap |-> -1])

\* a run of two laps with a queue has finished
C11_Witness ==
    /\ cfg.has_queue
    /\ pc = "finished"
    /\ cfg.max_laps = 2
    /\ Len(queue) = 3
    /\ atoms_on_surface(occ) >= 1

\* a run of no laps with a queue has finished
C11_WitnessNoLaps ==
    /\ cfg.has_queue
    /\ pc = "finished"
    /\ cfg.max_laps = 0
    /\ Len(queue) = 1

---------------------------------------------------------------------------
(* Claims on the pre-population variants and the snapshot pair *)

\* C12: each of prepopulate, prepopulate_sites and prepopulate_split
\* completes normally with its selected sites occupied, the energy vector
\* recomputed over all sites and the snapshot buffers equal to the current
\* occupancy, energies and energy.
C12_PrepopulationCompletes ==
    last.op \in {"prepopulate", "prepopulate_sites", "prepopulate_split"} =>
        /\ last.out = "ok"
        /\ atoms_on_surface(occ) >= add_prepopulated
        /\ last.op = "prepopulate_sites" => \A s \in stidx[last.i] : occ[s]
        /\ \A s \in Sites :
              energies[s] = IF occ[s] THEN get_energy(s, occ) ELSE 0
        /\ previous_occ = occ
        /\ previous_energies = energies
        /\ previous_energy = energy

\* C13: after keep_modification(S), changes of occupancy confined to S,
\* update_energy(S) and reverse_modification(S), the occupancy vector, the
\* energy vector and the aggregate energy equal their values at the time
\* of the keep, so energy = sum(energies) still holds if it held then.
C13_SnapshotRoundTrip ==
    trial.stage = "reversed" =>
        /\ occ = trial.occ
        /\ energies = trial.energies
        /\ energy = trial.energy
        /\ trial.energy = Sum(trial.energies) => energy = Sum(energies)

\* a round trip on a proper subset of the sites, over a state whose
\* snapshot buffers were stale outside S, with an occupancy change made
C13_Witness ==
    /\ trial.stage = "reversed"
    /\ trial.S # Sites
    /\ last.op = "update_energy"
    /\ \E s \in trial.S : last.pre[s] # trial.occ[s]
    /\ \E s \in Sites \ trial.S : previous_occ[s] # occ[s]
    /\ atoms_on_surface(occ) >= 1

---------------------------------------------------------------------------
(* Claims on the steps of run_lap *)

MoveCalls == SelectSeq(step_log.calls, LAMBDA c : c = "move_atom")

\* C15: in every step of run_lap the deposition, if any, precedes all of
\* the step's move_atom calls; the number of move_atom calls of the step is
\* moves_per_step times the occupied-site count measured after the step's
\* deposition; total_steps grows by one per step, steps_per_lap per lap.
C15_StepOrderAndCounts ==
    /\ \A k \in 1 .. Len(step_log.calls) :
          step_log.calls[k] = "add_atom" => k = 1
    /\ pc = "moves" =>
          /\ Len(MoveCalls) + moves_left = cfg.moves_per_step * step_log.atoms
          /\ step_log.atoms = atoms_on_surface(occ)
          /\ total_steps = lap * cfg.steps_per_lap + step
    /\ pc = "step" => total_steps = lap * cfg.steps_per_lap + step
    /\ (pc = "step" /\ step >= 1) =>
          Len(MoveCalls) = cfg.moves_per_step * step_log.atoms
    /\ pc \in {"post", "loop", "final", "quit", "finished"} =>
          total_steps = done * cfg.steps_per_lap
                        + (IF pc = "post" THEN cfg.steps_per_lap ELSE 0)

\* a step with a deposition followed by two move_atom calls has ended
C15_Witness ==
    /\ pc = "step"
    /\ step >= 1
    /\ step_log.calls = << "add_atom", "move_atom", "move_atom" >>
    /\ step_log.atoms = 2
    /\ cfg.moves_per_step = 1
    /\ total_steps >= 2

---------------------------------------------------------------------------
(* Claims on the counters and the preconditions of the engines *)

CountersConsistent ==
    /\ attempted_moves = successful_moves + not_moved_moves + blocked_moves
    /\ move_accepted = successful_moves + not_moved_moves

\* C16 as claimed: after any sequence of move_atom calls attempted_moves is
\* successful_moves + not_moved_moves + blocked_moves and move_accepted is
\* successful_moves + not_moved_moves.
C16_CountersConsistentAlways == CountersConsistent

\* C16 as amended: the counters never decrease, and a move_atom call made
\* with at least one occupied site increments exactly one of
\* successful_moves, not_moved_moves and blocked_moves, counts as accepted
\* unless it is blocked, and keeps the two counter identities.
C16_CountersConsistentWhenOccupied ==
    [][/\ attempted_moves' >= attempted_moves
       /\ successful_moves' >= successful_moves
       /\ not_moved_moves' >= not_moved_moves
       /\ blocked_moves' >= blocked_moves
       /\ move_accepted' >= move_accepted
       /\ (attempted_moves' = attempted_moves + 1 /\ \E s \in Sites : occ[s])
          => /\ (successful_moves' - successful_moves)
                + (not_moved_moves' - not_moved_moves)
                + (blocked_moves' - blocked_moves) = 1
             /\ (move_accepted' - move_accepted)
                + (blocked_moves' - blocked_moves) = 1
             /\ CountersConsistent => CountersConsistent']_vars

\* two calls on an occupied lattice: one hop or stay, one blocked
C16_Witness ==
    /\ last.op = "move_atom"
    /\ last.out = "blocked"
    /\ attempted_moves = 2
    /\ move_accepted = 1
    /\ blocked_moves = 1
    /\ CountersConsistent

\* C17: for a target coverage of at most 1, run_lap calls add_atom only
\* with at least one unoccupied site and move_atom only with at least one
\* occupied site; no move is attempted while the lattice is empty.
C17_DriverMeetsPreconditions ==
    (cfg.tnum <= cfg.tden /\ pc # "idle") =>
        /\ pc # "crashed"
        /\ last.out # "ValueError"
        /\ last.op = "add_atom" => \E s \in Sites : ~last.pre[s]
        /\ last.op = "move_atom" => \E s \in Sites : last.pre[s]
        /\ (pc = "moves" /\ atoms_on_surface(occ) = 0) =>
              (moves_left = 0 /\ step_log.calls = << >>)

\* a run with target coverage 1 has filled the lattice and moved atoms on it
C17_Witness ==
    /\ cfg.tnum = cfg.tden
    /\ pc = "step"
    /\ step >= 1
    /\ \A s \in Sites : occ[s]
    /\ Len(step_log.calls) >= 2
    /\ step_log.calls[1] = "add_atom"
    /\ last.op = "move_atom"

\* a run on an empty lattice with target coverage 0 has ended a step
C17_WitnessEmpty ==
    /\ cfg.tnum = 0
    /\ cfg.moves_per_step = 1
    /\ pc = "step"
    /\ step >= 1
    /\ atoms_on_surface(occ) = 0
    /\ attempted_moves = 0

FullFirstShell(i, oc) == \A s \in Slice(i, 0, Shell1) : oc[s]

\* C18: in every non-blocked move_atom call the vacated source i is an
\* unoccupied member of the candidates when the weights are normalized, so
\* the weights are never all zero and the destination is i or a site that
\* was unoccupied; when all 3 first-shell neighbours of i are occupied the
\* particle stays at i and not_moved_moves is incremented.
C18_SourceIsAlwaysAHopTarget ==
    [][(/\ attempted_moves' = attempted_moves + 1
        /\ last'.i \in Sites
        /\ last'.out # "blocked")
       => (/\ last'.out \in {"moved", "not_moved"}
           /\ last'.i \in candidates(last'.i)
           /\ last'.j \in candidates(last'.i)
           /\ last'.j = last'.i \/ ~occ[last'.j]
           /\ FullFirstShell(last'.i, occ) =>
                 /\ last'.j = last'.i
                 /\ not_moved_moves' = not_moved_moves + 1
                 /\ successful_moves' = successful_moves
                 /\ occ' = occ)]_vars

\* a non-blocked call on a site whose first shell is full but whose ring
\* is not: the particle stayed
C18_Witness ==
    /\ last.op = "move_atom"
    /\ last.i \in Sites
    /\ last.out = "not_moved"
    /\ FullFirstShell(last.i, last.pre)
    /\ ~FullRing(last.i, last.pre)
    /\ not_moved_moves >= 1

\* C19: the site add_atom marks occupied is unoccupied immediately before
\* the call, also when all attempts are exhausted; so whenever at least one
\* unoccupied site exists an add_atom call raises the occupied-site count
\* by exactly one and never lands on an occupied position.
C19_DepositionSiteWasUnoccupied ==
    [][(/\ last'.op = "add_atom"
        /\ last'.pre = occ
        /\ occ' # occ \/ last' # last
        /\ \E s \in Sites : ~occ[s])
       => (/\ last'.out \in {"added", "exhausted"}
           /\ last'.i \in Sites
           /\ ~occ[last'.i]
           /\ occ' = [occ EXCEPT ![last'.i] = TRUE]
           /\ atoms_on_surface(occ') = atoms_on_surface(occ) + 1)]_vars

\* add_atom has exhausted its attempts and occupied the last candidate,
\* which was unoccupied
C19_Witness ==
    /\ last.op = "add_atom"
    /\ last.out = "exhausted"
    /\ last.i \in Sites
    /\ ~last.pre[last.i]
    /\ occ[last.i]
    /\ atoms_on_surface(occ) = atoms_on_surface(last.pre) + 1

====
